---- MODULE Spec2Model ----
(***************************************************************************)
(* Relative-volatility computation of src/perform.py                       *)
(* (VolatilityTester.test_complete_method.calculate_relative_volatility,   *)
(* its nested extract_prices and get_historical_price_data, and the        *)
(* extract_prices under test in test_extract_prices_function).             *)
(*                                                                         *)
(* Numbers.  Python floats are modelled by exact rationals [n, d] in       *)
(* lowest terms (prices are integral), and statistics.stdev by the exact   *)
(* rational sample variance followed by a fixed-point square root          *)
(* (ISqrt, unit 1/SqrtScale).                                              *)
(***************************************************************************)
EXTENDS Integers, Sequences, FiniteSets, TLC

VARIABLES
    \* ---- one invocation of calculate_relative_volatility ----
    token,               \* argument token
    reference_tokens,    \* argument reference_tokens (a sequence of symbols)
    market_data,         \* argument market_data: [isdict, keys]
    timeframe,           \* argument timeframe
    db,                  \* price_history table seen by the provider, per token
    pc,                  \* position of the invocation
    hours,               \* local hours
    token_prices,        \* local token_prices
    token_changes,       \* local token_changes
    token_volatility,    \* local token_volatility
    market_volatilities, \* local market_volatilities
    ref_idx,             \* position of the reference loop (1-based)
    result,              \* outcome: [kind, val], kind "none" is return None
    excepted,            \* the outer except clause (lines 740-742) ran
    calls,               \* provider calls made so far: <<token, hours>>
    \* ---- one application of extract_prices ----
    history_data,        \* the argument
    prices_out,          \* the returned list
    xpc,                 \* "call" before, "done" after
    \* ---- one run of the percentage-change loop ----
    series,              \* the price list the loop runs over
    loop_i,              \* loop variable i (0-based, as in range(1, len))
    changes,             \* price_changes
    emitted,             \* the values of i for which a change was appended
    divided_by_zero,     \* a division by zero was attempted
    \* ---- two invocations running side by side ----
    invs,                \* the frame of each invocation: its arguments token
                         \* and timeframe, its locals, its position, its outcome
    \* ---- one call of test_volatility_with_errors ----
    error_scenarios,     \* local error_scenarios
    helper_result,       \* first component of the returned pair
    connect_fails,       \* sqlite3.connect("nonexistent.db") raises
    hpc,                 \* "call" before, "done" after
    \* ---- one call of the provider get_historical_price_data ----
    price_history,       \* the price_history rows of the token, as stored
    arg_hours_back,      \* argument hours_back
    provider_out,        \* the returned value
    ppc,                 \* "call" before, "done" after, "raised"
    \* ---- one run of VolatilityTester.run_all_tests ----
    test_results,        \* self.test_results: entries [name, status] in
                         \* insertion order
    ran,                 \* the methods called so far, in order
    rpc                  \* number of methods run_all_tests has called

vars == <<token, reference_tokens, market_data, timeframe, db, pc, hours,
          token_prices, token_changes, token_volatility,
          market_volatilities, ref_idx, result, excepted, calls, history_data, prices_out, xpc,
          series, loop_i, changes, emitted, divided_by_zero,
          invs, error_scenarios, helper_result, connect_fails, hpc,
          price_history, arg_hours_back, provider_out, ppc,
          test_results, ran, rpc>>

calcVars == <<token, reference_tokens, market_data, timeframe, db, pc, hours,
              token_prices, token_changes, token_volatility,
              market_volatilities, ref_idx, result, excepted, calls>>
extractVars == <<history_data, prices_out, xpc>>
loopVars == <<series, loop_i, changes, emitted, divided_by_zero>>
pairVars == <<invs>>
helperVars == <<error_scenarios, helper_result, connect_fails, hpc>>
providerVars == <<price_history, arg_hours_back, provider_out, ppc>>
runVars == <<test_results, ran, rpc>>

-----------------------------------------------------------------------------
(* Bounds of the model *)

MaxEntries == 3      \* longest history_data list given to extract_prices
MaxSeries == 4       \* longest price list given to the change loop
MaxRefs == 2         \* longest reference_tokens list
MaxRows == 6         \* longest price_history table of a token
SqrtScale == 10      \* fixed-point unit of a volatility is 1/SqrtScale

-----------------------------------------------------------------------------
(* Exact rational arithmetic standing for float arithmetic *)

Abs(x) == IF x < 0 THEN -x ELSE x

RECURSIVE GCD(_, _)
GCD(a, b) == IF b = 0 THEN a ELSE GCD(b, a % b)

Rat(n, d) ==
    LET g == GCD(Abs(n), Abs(d))
        s == IF d < 0 THEN -1 ELSE 1
    IN  [n |-> s * (n \div g), d |-> s * (d \div g)]

RInt(k) == [n |-> k, d |-> 1]
RAdd(x, y) == Rat(x.n * y.d + y.n * x.d, x.d * y.d)
RSub(x, y) == Rat(x.n * y.d - y.n * x.d, x.d * y.d)
RMul(x, y) == Rat(x.n * y.n, x.d * y.d)
RDiv(x, y) == Rat(x.n * y.d, x.d * y.n)
RGt(x, y) == x.n * y.d > y.n * x.d

RECURSIVE RSum(_)
RSum(s) == IF s = <<>> THEN RInt(0) ELSE RAdd(Head(s), RSum(Tail(s)))

\* floor of the square root, by bisection on [lo, hi]
RECURSIVE SqrtBetween(_, _, _)
SqrtBetween(x, lo, hi) ==
    IF lo = hi THEN lo
    ELSE LET mid == (lo + hi + 1) \div 2
         IN  IF mid * mid <= x THEN SqrtBetween(x, mid, hi)
             ELSE SqrtBetween(x, lo, mid - 1)

ISqrt(x) == SqrtBetween(x, 0, IF x < 46340 THEN x ELSE 46340)

-----------------------------------------------------------------------------
(* Python values met by extract_prices *)

\* a scalar: None, a number, a string float() parses, a string it rejects
PyNone == [t |-> "none", n |-> 0]
PyNum(k) == [t |-> "num", n |-> k]
PyNumStr(k) == [t |-> "numstr", n |-> k]
PyBadStr == [t |-> "badstr", n |-> 0]

\* float(x): [ok |-> FALSE] stands for ValueError / TypeError
float(x) ==
    CASE x.t = "num" -> [ok |-> TRUE, v |-> x.n]
      [] x.t = "numstr" -> [ok |-> TRUE, v |-> x.n]
      [] OTHER -> [ok |-> FALSE, v |-> 0]

\* a price entry: kind "none" (None), "num" (a bare number, val), "str",
\* "dict" (has: 'price' in entry; val: entry['price']), "list" (has:
\* len(entry) > 0; val: entry[0]), "obj" (an object with attribute price)
EntryNone == [kind |-> "none", has |-> FALSE, val |-> PyNone]
EntryNum(k) == [kind |-> "num", has |-> FALSE, val |-> PyNum(k)]
EntryStr == [kind |-> "str", has |-> FALSE, val |-> PyBadStr]
EntryDict(v) == [kind |-> "dict", has |-> TRUE, val |-> v]
EntryDictNoPrice == [kind |-> "dict", has |-> FALSE, val |-> PyNone]
EntryList(v) == [kind |-> "list", has |-> TRUE, val |-> v]
EntryListEmpty == [kind |-> "list", has |-> FALSE, val |-> PyNone]
EntryObj(v) == [kind |-> "obj", has |-> TRUE, val |-> v]

\* history_data: None, a string, a non-iterable, or a list of entries
HistNone == [hk |-> "none", items |-> <<>>]
HistStr == [hk |-> "str", items |-> <<>>]
HistNonIter == [hk |-> "noniter", items |-> <<>>]
HistList(s) == [hk |-> "list", items |-> s]
\* the provider call ends in an exception instead of a value
HistRaise == [hk |-> "raise", items |-> <<>>]

\* the price variable after the if/elif chain; ok = FALSE is price None
NoPrice == [ok |-> FALSE, v |-> 0]

\* variant: list / tuple entries are not read
entry_price_nolist(entry) ==
    IF entry.kind = "dict"
    THEN IF entry.has /\ entry.val.t # "none" THEN float(entry.val) ELSE NoPrice
    ELSE IF entry.kind = "num"
    THEN float(entry.val)
    ELSE NoPrice

\* lines 613-629: the nested extract_prices of calculate_relative_volatility
entry_price(entry) ==
    IF entry.kind = "dict"
    THEN IF entry.has /\ entry.val.t # "none" THEN float(entry.val) ELSE NoPrice
    ELSE IF entry.kind = "list" /\ entry.has
    THEN IF entry.val.t # "none" THEN float(entry.val) ELSE NoPrice
    ELSE IF entry.kind = "num"
    THEN float(entry.val)
    ELSE NoPrice

\* variant: the branch for an entry that is itself a number is missing
entry_price_test_nobare(entry) ==
    IF entry.kind = "dict"
    THEN IF entry.has /\ entry.val.t # "none" THEN float(entry.val) ELSE NoPrice
    ELSE IF entry.kind = "list" /\ entry.has
    THEN IF entry.val.t # "none" THEN float(entry.val) ELSE NoPrice
    ELSE IF entry.kind = "obj"
    THEN float(entry.val)
    ELSE NoPrice

\* lines 317-345: the extract_prices of test_extract_prices_function
entry_price_test(entry) ==
    IF entry.kind = "dict"
    THEN IF entry.has /\ entry.val.t # "none" THEN float(entry.val) ELSE NoPrice
    ELSE IF entry.kind = "list" /\ entry.has
    THEN IF entry.val.t # "none" THEN float(entry.val) ELSE NoPrice
    ELSE IF entry.kind = "obj"
    THEN float(entry.val)
    ELSE IF entry.kind = "num"
    THEN float(entry.val)
    ELSE NoPrice

\* variant: a price is put at the front of the list
keep_price_front(prices, entry) ==
    IF entry.kind = "none" THEN prices
    ELSE LET price == entry_price(entry)
         IN  IF price.ok /\ price.v > 0 THEN <<price.v>> \o prices ELSE prices

\* variant: a price of zero is kept
keep_price_ge(prices, entry) ==
    IF entry.kind = "none" THEN prices
    ELSE LET price == entry_price(entry)
         IN  IF price.ok /\ price.v >= 0 THEN Append(prices, price.v) ELSE prices

\* lines 609-635: the loop body, appended to prices
keep_price(prices, entry) ==
    IF entry.kind = "none" THEN prices
    ELSE LET price == entry_price(entry)
         IN  IF price.ok /\ price.v > 0 THEN Append(prices, price.v) ELSE prices

keep_price_test(prices, entry) ==
    IF entry.kind = "none" THEN prices
    ELSE LET price == entry_price_test(entry)
         IN  IF price.ok /\ price.v > 0 THEN Append(prices, price.v) ELSE prices

RECURSIVE extract_loop(_, _)
extract_loop(prices, items) ==
    IF items = <<>> THEN prices
    ELSE extract_loop(keep_price(prices, Head(items)), Tail(items))

RECURSIVE extract_loop_test(_, _)
extract_loop_test(prices, items) ==
    IF items = <<>> THEN prices
    ELSE extract_loop_test(keep_price_test(prices, Head(items)), Tail(items))

\* lines 600-637
extract_prices(h) ==
    IF h.hk = "none" \/ h.hk = "str" THEN <<>>
    ELSE IF h.hk = "noniter" THEN <<>>
    ELSE extract_loop(<<>>, h.items)

\* lines 300-354
extract_prices_test(h) ==
    IF h.hk = "none" THEN <<>>
    ELSE IF h.hk = "str" THEN <<>>
    ELSE IF h.hk = "noniter" THEN <<>>
    ELSE extract_loop_test(<<>>, h.items)

-----------------------------------------------------------------------------
(* The percentage-change loop and the statistics *)

MinPrices == 5       \* len(prices) < 5 is insufficient
MinChanges == 2      \* len(changes) < 2 is insufficient

\* prices[k] with Python's 0-based index
At(prices, k) == prices[k + 1]

\* variant: the guard reads the current price
change_guard_current(prices, i) == At(prices, i) > 0

\* lines 677, 709, 546: if prices[i-1] > 0
change_guard(prices, i) == At(prices, i - 1) > 0

\* variant: a fall clamped to -25 percent
pct_change_clamped(prices, i) ==
    LET c == RMul(RSub(RDiv(RInt(At(prices, i)), RInt(At(prices, i - 1))),
                       RInt(1)), RInt(100))
    IN  IF RGt(RInt(-25), c) THEN RInt(-25) ELSE c

\* variant: the size of the move, without its direction
pct_change_abs(prices, i) ==
    LET c == RMul(RSub(RDiv(RInt(At(prices, i)), RInt(At(prices, i - 1))),
                       RInt(1)), RInt(100))
    IN  IF RGt(RInt(0), c) THEN RSub(RInt(0), c) ELSE c

\* lines 679, 711, 547: ((prices[i] / prices[i-1]) - 1) * 100
pct_change(prices, i) ==
    RMul(RSub(RDiv(RInt(At(prices, i)), RInt(At(prices, i - 1))), RInt(1)),
         RInt(100))

\* the division of pct_change raises ZeroDivisionError
zero_division(prices, i) == At(prices, i - 1) = 0

\* lines 675-682, 707-714: for i in range(1, len(prices)), from i on;
\* a ZeroDivisionError is caught and the step skipped
RECURSIVE changes_from(_, _, _)
changes_from(prices, i, acc) ==
    IF i >= Len(prices) THEN acc
    ELSE IF change_guard(prices, i) /\ ~zero_division(prices, i)
    THEN changes_from(prices, i + 1, Append(acc, pct_change(prices, i)))
    ELSE changes_from(prices, i + 1, acc)

price_changes(prices) == changes_from(prices, 1, <<>>)

\* statistics.mean
mean(xs) == RDiv(RSum(xs), RInt(Len(xs)))

\* sum of squared deviations from the mean
sum_sq_dev(xs) ==
    LET m == mean(xs)
    IN  RSum([k \in 1..Len(xs) |-> RMul(RSub(xs[k], m), RSub(xs[k], m))])

\* variant: the population variance, N denominator
variance_population(xs) == RDiv(sum_sq_dev(xs), RInt(Len(xs)))

\* statistics.variance: N-1 denominator
variance(xs) == RDiv(sum_sq_dev(xs), RInt(Len(xs) - 1))

\* statistics.stdev, for len(xs) >= 2; the square root in units of 1/SqrtScale
stdev(xs) ==
    LET v == variance(xs)
    IN  Rat(ISqrt((v.n * SqrtScale * SqrtScale) \div v.d), SqrtScale)

\* variant: a series without variance is refused as well
stdev_fails_flat(xs) ==
    Len(xs) < 2 \/ \A k \in 1..Len(xs) : xs[k] = xs[1]

\* statistics.stdev raises StatisticsError
stdev_fails(xs) == Len(xs) < 2

\* variant: the threshold one too low
insufficient_prices_off(prices) == Len(prices) < MinPrices - 1

\* lines 671, 704: if len(prices) < 5
insufficient_prices(prices) == Len(prices) < MinPrices

\* variant: the sum in place of the mean
market_average_sum(vols) == RSum(vols)

\* line 731: statistics.mean(market_volatilities)
market_average(vols) == mean(vols)

-----------------------------------------------------------------------------
(* The price_history table and the provider *)

Limit == 50          \* LIMIT 50

Min(a, b) == IF a < b THEN a ELSE b

RECURSIVE InsertByTimestamp(_, _)
\* r put before the first row with a later timestamp (a smaller age)
InsertByTimestamp(r, sorted) ==
    IF sorted = <<>> THEN <<r>>
    ELSE IF Head(sorted).age <= r.age THEN <<r>> \o sorted
    ELSE <<Head(sorted)>> \o InsertByTimestamp(r, Tail(sorted))

\* variant: the rows come back as they are stored
OrderByTimestamp_stored(rows) == rows

RECURSIVE OrderByTimestamp(_)
\* line 651: ORDER BY timestamp ASC, the oldest row first
OrderByTimestamp(rows) ==
    IF rows = <<>> THEN <<>>
    ELSE InsertByTimestamp(Head(rows), OrderByTimestamp(Tail(rows)))

RECURSIVE SelectRows(_, _)
\* line 650: WHERE timestamp >= now - hours_back
SelectRows(rows, hours_back) ==
    IF rows = <<>> THEN <<>>
    ELSE IF Head(rows).age <= hours_back
    THEN <<Head(rows)>> \o SelectRows(Tail(rows), hours_back)
    ELSE SelectRows(Tail(rows), hours_back)

\* variant: the database error is not caught
get_historical_price_data_nocatch(table, hours_back) ==
    IF table.err THEN HistRaise
    ELSE LET sel == OrderByTimestamp(SelectRows(table.rows, hours_back))
             results == SubSeq(sel, 1, Min(Limit, Len(sel)))
         IN  IF results = <<>> THEN HistNone
             ELSE HistList([k \in 1..Len(results) |-> EntryDict(results[k].price)])

\* lines 640-664: a table is [err, rows]; err: the database raises
get_historical_price_data(table, hours_back) ==
    IF table.err THEN HistNone
    ELSE LET sel == OrderByTimestamp(SelectRows(table.rows, hours_back))
             results == SubSeq(sel, 1, Min(Limit, Len(sel)))
         IN  IF results = <<>> THEN HistNone
             ELSE HistList([k \in 1..Len(results) |-> EntryDict(results[k].price)])

-----------------------------------------------------------------------------
(* Values that belong to no running operation *)

Pending == [kind |-> "pending", val |-> RInt(0)]
ReturnNone == [kind |-> "none", val |-> RInt(0)]
ReturnValue(r) == [kind |-> "value", val |-> r]
Raised == [kind |-> "raise", val |-> RInt(0)]

IdleCalc ==
    /\ token = "" /\ reference_tokens = <<>> /\ timeframe = ""
    /\ market_data = [isdict |-> TRUE, keys |-> {}]
    /\ db = <<>> /\ pc = "idle" /\ hours = 0
    /\ token_prices = <<>> /\ token_changes = <<>>
    /\ token_volatility = RInt(0)
    /\ market_volatilities = <<>> /\ ref_idx = 0
    /\ result = Pending
    /\ excepted = FALSE /\ calls = <<>>

IdleExtract == history_data = HistNone /\ prices_out = <<>> /\ xpc = "idle"

IdleLoop ==
    /\ series = <<>> /\ loop_i = 0 /\ changes = <<>> /\ emitted = <<>>
    /\ divided_by_zero = FALSE

IdlePair == invs = <<>>

IdleHelper ==
    /\ error_scenarios = <<>> /\ helper_result = Pending
    /\ connect_fails = FALSE /\ hpc = "idle"

IdleProvider ==
    /\ price_history = [err |-> FALSE, rows |-> <<>>] /\ arg_hours_back = 0
    /\ provider_out = HistNone /\ ppc = "idle"

IdleRun == test_results = <<>> /\ ran = <<>> /\ rpc = -1

-----------------------------------------------------------------------------
(* extract_prices applied to one input *)

SeqUpTo(S, n) == UNION {[1..k -> S] : k \in 0..n}

NumVals == {-1, 0, 1, 2}

Scalars == {PyNone, PyBadStr, PyNumStr(2)} \cup {PyNum(k) : k \in NumVals}

Entries ==
    {EntryNone, EntryStr, EntryDictNoPrice, EntryListEmpty, EntryObj(PyNum(1))}
    \cup {EntryNum(k) : k \in NumVals}
    \cup {EntryDict(v) : v \in Scalars}
    \cup {EntryList(v) : v \in Scalars}

HistoryInputs ==
    {HistNone, HistStr, HistNonIter}
    \cup {HistList(s) : s \in SeqUpTo(Entries, MaxEntries)}

InitExtract ==
    /\ history_data \in HistoryInputs
    /\ prices_out = <<>>
    /\ xpc = "call"
    /\ IdleCalc /\ IdleLoop /\ IdlePair /\ IdleHelper
    /\ IdleProvider /\ IdleRun

\* a value the for statement of line 609 (and 312) can run over; on any
\* other value the statement raises TypeError
iterable(h) == h.hk \in {"list", "str"}

\* variant: the checks before the loop are missing
reaches_loop_unchecked(h) == TRUE

\* lines 601-605 (and 302-309): the for statement is reached only when none
\* of the three checks returned []
reaches_loop(h) == h.hk \notin {"none", "str", "noniter"}

\* the for statement is given a value it cannot iterate
extract_raises(h) == reaches_loop(h) /\ ~iterable(h)

\* variant: the entries are popped off history_data as they are read
CallExtractPrices_consuming ==
    /\ xpc = "call"
    /\ IF extract_raises(history_data)
       THEN prices_out' = prices_out /\ xpc' = "raised"
       ELSE prices_out' = extract_prices(history_data) /\ xpc' = "done"
    /\ history_data' =
          IF history_data.hk = "list" THEN HistList(<<>>) ELSE history_data
    /\ UNCHANGED <<calcVars, loopVars, pairVars, helperVars,
                   providerVars, runVars>>

\* lines 668, 702: extract_prices(history) as called by
\* calculate_relative_volatility
CallExtractPrices ==
    /\ xpc = "call"
    /\ IF extract_raises(history_data)
       THEN prices_out' = prices_out /\ xpc' = "raised"
       ELSE prices_out' = extract_prices(history_data) /\ xpc' = "done"
    /\ UNCHANGED <<history_data, calcVars, loopVars, pairVars, helperVars,
                   providerVars, runVars>>

\* line 407: extract_prices(test_case["input"]) of the test
CallExtractPricesTest ==
    /\ xpc = "call"
    /\ IF extract_raises(history_data)
       THEN prices_out' = prices_out /\ xpc' = "raised"
       ELSE prices_out' = extract_prices_test(history_data) /\ xpc' = "done_test"
    /\ UNCHANGED <<history_data, calcVars, loopVars, pairVars, helperVars,
                   providerVars, runVars>>

NextExtract == CallExtractPrices \/ CallExtractPricesTest

SpecExtract == InitExtract /\ [][NextExtract]_vars

-----------------------------------------------------------------------------
(* The percentage-change loop run over one price list *)

\* prices given to the loop: negative, zero and a ramp of positive values
LoopVals == NumVals \cup {3, 4}

InitLoop ==
    /\ series \in SeqUpTo(LoopVals, MaxSeries)
    /\ loop_i = 1
    /\ changes = <<>>
    /\ emitted = <<>>
    /\ divided_by_zero = FALSE
    /\ IdleCalc /\ IdleExtract /\ IdlePair /\ IdleHelper
    /\ IdleProvider /\ IdleRun

\* lines 676-682 (and 545-548): one iteration of
\* for i in range(1, len(prices))
LoopStep ==
    /\ loop_i >= 1
    /\ loop_i < Len(series)
    /\ IF change_guard(series, loop_i)
       THEN IF zero_division(series, loop_i)
            THEN /\ divided_by_zero' = TRUE
                 /\ UNCHANGED <<changes, emitted>>
            ELSE /\ changes' = Append(changes, pct_change(series, loop_i))
                 /\ emitted' = Append(emitted, loop_i)
                 /\ UNCHANGED divided_by_zero
       ELSE UNCHANGED <<changes, emitted, divided_by_zero>>
    /\ loop_i' = loop_i + 1
    /\ UNCHANGED <<series, calcVars, extractVars, pairVars, helperVars,
                   providerVars, runVars>>

LoopDone == loop_i >= 1 /\ loop_i >= Len(series)

NextLoop == LoopStep

SpecLoop == InitLoop /\ [][NextLoop]_vars

-----------------------------------------------------------------------------
(* One invocation of calculate_relative_volatility *)

Tokens == {"BTC", "ETH"}
Timeframes == {"1h", "24h", "7d", "invalid"}

\* the k-th price of a series of the given shape
PriceAt(shape, k) ==
    CASE shape = "zigzag" -> IF k % 2 = 1 THEN 1 ELSE 2
      [] shape = "flat" -> 2
      [] shape = "geo" -> 2 ^ (k - 1)
      [] shape = "saw" -> 2 ^ ((k - 1) % 3)

\* n rows of the given shape, oldest first, the newest aged base hours and
\* each earlier one step hours more
MkRows(n, shape, base, step) ==
    [k \in 1..n |->
        [price |-> PyNum(PriceAt(shape, k)), age |-> base + step * (n - k)]]

DirtyCells ==
    <<PyNum(1), PyNone, PyNum(2), PyNum(0), PyNum(1), PyBadStr, PyNum(2),
      PyNum(-1), PyNumStr(1)>>

MalformedCells == <<PyNone, PyNum(0), PyBadStr, PyNum(-1), PyNone>>

CellRows(cells) ==
    [k \in 1..Len(cells) |-> [price |-> cells[k], age |-> 1 + Len(cells) - k]]

Table(rows) == [err |-> FALSE, rows |-> rows]
BrokenTable == [err |-> TRUE, rows |-> <<>>]

Tables ==
    {BrokenTable, Table(<<>>),
     Table(MkRows(MinPrices - 1, "zigzag", 1, 1)),
     Table(MkRows(MaxRows, "zigzag", 1, 1)),
     Table(MkRows(MaxRows, "zigzag", 30, 1)),
     Table(MkRows(MinPrices, "flat", 1, 1)),
     Table(MkRows(MinPrices, "geo", 1, 1)),
     Table(MkRows(MaxRows, "saw", 1, 5)),
     Table(CellRows(DirtyCells)),
     Table(CellRows(SubSeq(DirtyCells, 1, 7))),
     Table(CellRows(MalformedCells))}

MarketDatas ==
    {[isdict |-> FALSE, keys |-> {}]}
    \cup {[isdict |-> TRUE, keys |-> K] : K \in SUBSET Tokens}

Init ==
    /\ token \in Tokens
    /\ reference_tokens \in SeqUpTo(Tokens, MaxRefs)
    /\ market_data \in MarketDatas
    /\ timeframe \in Timeframes
    /\ db \in [Tokens -> Tables]
    /\ pc = "window"
    /\ hours = 0
    /\ token_prices = <<>> /\ token_changes = <<>>
    /\ token_volatility = RInt(0)
    /\ market_volatilities = <<>> /\ ref_idx = 0
    /\ result = Pending
    /\ excepted = FALSE
    /\ calls = <<>>
    /\ IdleExtract /\ IdleLoop /\ IdlePair /\ IdleHelper
    /\ IdleProvider /\ IdleRun

\* variant: an unknown timeframe gets the shortest window
window_hours_short(tf) ==
    IF tf = "24h" THEN 7 * 24
    ELSE IF tf = "7d" THEN 30 * 24
    ELSE 24

\* lines 592-597
window_hours(tf) ==
    IF tf = "1h" THEN 24
    ELSE IF tf = "24h" THEN 7 * 24
    ELSE 30 * 24

\* lines 591-597
SelectWindow ==
    /\ pc = "window"
    /\ hours' = window_hours(timeframe)
    /\ pc' = "token"
    /\ UNCHANGED <<token, reference_tokens, market_data, timeframe, db,
                   token_prices, token_changes, token_volatility,
                   market_volatilities, ref_idx, result, excepted, calls,
                   extractVars, loopVars,
                   pairVars, helperVars,
                   providerVars, runVars>>

\* lines 666-672
FetchTokenHistory ==
    /\ pc = "token"
    /\ calls' = Append(calls, <<token, hours>>)
    /\ LET token_history == get_historical_price_data(db[token], hours)
           prices == extract_prices(token_history)
       IN  IF token_history.hk = "raise"
           THEN \* the exception reaches the except clause of line 740
                /\ result' = ReturnNone /\ excepted' = TRUE /\ pc' = "done"
                /\ UNCHANGED token_prices
           ELSE /\ token_prices' = prices
                /\ excepted' = excepted
                /\ IF insufficient_prices(prices)
                   THEN result' = ReturnNone /\ pc' = "done"
                   ELSE result' = result /\ pc' = "volatility"
    /\ UNCHANGED <<token, reference_tokens, market_data, timeframe, db, hours,
                   token_changes, token_volatility, market_volatilities,
                   ref_idx, extractVars, loopVars,
                   pairVars, helperVars,
                   providerVars, runVars>>

\* lines 674-691
TokenVolatility ==
    /\ pc = "volatility"
    /\ LET chg == price_changes(token_prices)
       IN  /\ token_changes' = chg
           /\ IF Len(chg) < MinChanges \/ stdev_fails(chg)
              THEN /\ result' = ReturnNone /\ pc' = "done"
                   /\ UNCHANGED <<token_volatility, ref_idx>>
              ELSE /\ token_volatility' = stdev(chg)
                   /\ ref_idx' = 1
                   /\ pc' = "refs"
                   /\ result' = result
    /\ UNCHANGED <<token, reference_tokens, market_data, timeframe, db, hours,
                   token_prices, market_volatilities, excepted, calls,
                   extractVars, loopVars,
                   pairVars, helperVars,
                   providerVars, runVars>>

\* variant: a reference with too few prices counts as volatility 0
ref_volatilities_zero_fill(ref_history) ==
    LET ref_prices == extract_prices(ref_history)
        ref_changes == price_changes(ref_prices)
    IN  IF ref_history.hk = "raise" THEN <<>>
        ELSE IF insufficient_prices(ref_prices) THEN <<RInt(0)>>
        ELSE IF Len(ref_changes) >= MinChanges /\ ~stdev_fails(ref_changes)
        THEN <<stdev(ref_changes)>>
        ELSE <<>>

\* variant: the reference prices are not counted
ref_volatilities_nocheck(ref_history) ==
    LET ref_prices == extract_prices(ref_history)
        ref_changes == price_changes(ref_prices)
    IN  IF ref_history.hk = "raise" THEN <<>>
        ELSE IF Len(ref_changes) >= MinChanges /\ ~stdev_fails(ref_changes)
        THEN <<stdev(ref_changes)>>
        ELSE <<>>

\* lines 700-724: the volatilities a reference history adds (none or one);
\* an exception of the provider is caught at line 723 and the token skipped
ref_volatilities(ref_history) ==
    LET ref_prices == extract_prices(ref_history)
        ref_changes == price_changes(ref_prices)
    IN  IF ref_history.hk = "raise" THEN <<>>
        ELSE IF insufficient_prices(ref_prices) THEN <<>>
        ELSE IF Len(ref_changes) >= MinChanges /\ ~stdev_fails(ref_changes)
        THEN <<stdev(ref_changes)>>
        ELSE <<>>

\* variant: every reference token is looked up
skip_reference_never(ref_token) == FALSE

\* variant: the subject token is left out of its own baseline
skip_reference_self(ref_token) ==
    ref_token \notin market_data.keys \/ ref_token = token

\* lines 697-698: if ref_token not in market_data: continue
skip_reference(ref_token) == ref_token \notin market_data.keys

\* variant: the reference list is gone through from its end
ReferenceStep_reversed ==
    /\ pc = "refs"
    /\ ref_idx <= Len(reference_tokens)
    /\ LET ref_token == reference_tokens[Len(reference_tokens) + 1 - ref_idx]
       IN  IF ~market_data.isdict
           THEN /\ result' = ReturnNone
                /\ excepted' = TRUE
                /\ pc' = "done"
                /\ UNCHANGED <<market_volatilities, ref_idx, calls>>
           ELSE IF skip_reference(ref_token)
           THEN /\ ref_idx' = ref_idx + 1
                /\ UNCHANGED <<market_volatilities, result, excepted, pc, calls>>
           ELSE /\ calls' = Append(calls, <<ref_token, hours>>)
                /\ market_volatilities' = market_volatilities \o
                       ref_volatilities(get_historical_price_data(db[ref_token], hours))
                /\ ref_idx' = ref_idx + 1
                /\ UNCHANGED <<result, excepted, pc>>
    /\ UNCHANGED <<token, reference_tokens, market_data, timeframe, db, hours,
                   token_prices, token_changes, token_volatility,
                   extractVars, loopVars,
                   pairVars, helperVars,
                   providerVars, runVars>>

\* lines 696-724: one iteration of for ref_token in reference_tokens
ReferenceStep ==
    /\ pc = "refs"
    /\ ref_idx <= Len(reference_tokens)
    /\ LET ref_token == reference_tokens[ref_idx]
       IN  IF ~market_data.isdict
           THEN \* line 697 raises TypeError, caught at line 740
                /\ result' = ReturnNone
                /\ excepted' = TRUE
                /\ pc' = "done"
                /\ UNCHANGED <<market_volatilities, ref_idx, calls>>
           ELSE IF skip_reference(ref_token)
           THEN /\ ref_idx' = ref_idx + 1
                /\ UNCHANGED <<market_volatilities, result, excepted, pc, calls>>
           ELSE /\ calls' = Append(calls, <<ref_token, hours>>)
                /\ market_volatilities' = market_volatilities \o
                       ref_volatilities(get_historical_price_data(db[ref_token], hours))
                /\ ref_idx' = ref_idx + 1
                /\ UNCHANGED <<result, excepted, pc>>
    /\ UNCHANGED <<token, reference_tokens, market_data, timeframe, db, hours,
                   token_prices, token_changes, token_volatility,
                   extractVars, loopVars,
                   pairVars, helperVars,
                   providerVars, runVars>>

\* variant: >= in place of >
average_positive_ge(avg) == avg.n >= 0

\* line 734: if market_avg_volatility > 0
average_positive(avg) == RGt(avg, RInt(0))

\* lines 726-742
MarketAverage ==
    /\ pc = "refs"
    /\ ref_idx > Len(reference_tokens)
    /\ IF market_volatilities = <<>>
       THEN result' = ReturnNone /\ excepted' = excepted
       ELSE LET market_avg_volatility == market_average(market_volatilities)
            IN  IF average_positive(market_avg_volatility)
                THEN IF market_avg_volatility.n = 0
                     THEN \* ZeroDivisionError, caught at line 740
                          result' = ReturnNone /\ excepted' = TRUE
                     ELSE /\ result' = ReturnValue(
                                 RDiv(token_volatility, market_avg_volatility))
                          /\ excepted' = excepted
                ELSE result' = ReturnNone /\ excepted' = excepted
    /\ pc' = "done"
    /\ UNCHANGED <<token, reference_tokens, market_data, timeframe, db, hours,
                   token_prices, token_changes, token_volatility,
                   market_volatilities, ref_idx, calls, extractVars, loopVars,
                   pairVars, helperVars,
                   providerVars, runVars>>

Next ==
    \/ SelectWindow
    \/ FetchTokenHistory
    \/ TokenVolatility
    \/ ReferenceStep
    \/ MarketAverage

Spec == Init /\ [][Next]_vars

\* the invocation and the bare extract_prices calls side by side
InitAny == Init \/ InitExtract

NextAny == Next \/ NextExtract

SpecAny == InitAny /\ [][NextAny]_vars

-----------------------------------------------------------------------------
(* calculate_relative_volatility as one evaluation: the outcome of an
   invocation that runs alone *)

\* lines 693-724: the list market_volatilities after the loop over refs
RECURSIVE collect_volatilities(_, _, _, _)
collect_volatilities(refs, md, h, acc) ==
    IF refs = <<>> THEN acc
    ELSE IF Head(refs) \notin md.keys
    THEN collect_volatilities(Tail(refs), md, h, acc)
    ELSE collect_volatilities(Tail(refs), md, h,
             acc \o ref_volatilities(
                        get_historical_price_data(db[Head(refs)], h)))

\* lines 587-742
calculate_relative_volatility(tok, refs, md, tf) ==
    LET h == window_hours(tf)
        token_history == get_historical_price_data(db[tok], h)
        prices == extract_prices(token_history)
        chg == price_changes(prices)
        vols == collect_volatilities(refs, md, h, <<>>)
        avg == market_average(vols)
    IN  IF token_history.hk = "raise" THEN ReturnNone
        ELSE IF insufficient_prices(prices) THEN ReturnNone
        ELSE IF Len(chg) < MinChanges \/ stdev_fails(chg) THEN ReturnNone
        ELSE IF refs # <<>> /\ ~md.isdict THEN ReturnNone
        ELSE IF vols = <<>> THEN ReturnNone
        ELSE IF average_positive(avg) /\ avg.n # 0
        THEN ReturnValue(RDiv(stdev(chg), avg))
        ELSE ReturnNone

-----------------------------------------------------------------------------
(* Two invocations of calculate_relative_volatility side by side, given the
   same reference_tokens and market_data objects and reading the same
   table; each step of one invocation is one provider call with the
   computation that follows it *)

Invocations == {1, 2}

PairTimeframes == {"1h", "24h"}

PairTables ==
    {Table(MkRows(MinPrices - 1, "zigzag", 1, 1)),
     Table(MkRows(MaxRows, "zigzag", 1, 1)),
     Table(MkRows(MinPrices, "flat", 1, 1)),
     Table(MkRows(MaxRows, "saw", 1, 5))}

\* lines 587-590: the frame of an invocation at its start
NewFrame(tok, tf) ==
    [token |-> tok, timeframe |-> tf, pc |-> "window", hours |-> 0,
     token_prices |-> <<>>, token_changes |-> <<>>,
     token_volatility |-> RInt(0), market_volatilities |-> <<>>,
     ref_idx |-> 0, result |-> Pending]

InitPair ==
    /\ reference_tokens \in SeqUpTo(Tokens, MaxRefs)
    /\ market_data \in {[isdict |-> TRUE, keys |-> ks] : ks \in SUBSET Tokens}
    /\ db \in [Tokens -> PairTables]
    /\ invs \in {[i \in Invocations |-> NewFrame(toks[i], tfs[i])] :
                    toks \in [Invocations -> Tokens],
                    tfs \in [Invocations -> PairTimeframes]}
    /\ token = "" /\ timeframe = "" /\ pc = "idle" /\ hours = 0
    /\ token_prices = <<>> /\ token_changes = <<>>
    /\ token_volatility = RInt(0)
    /\ market_volatilities = <<>> /\ ref_idx = 0
    /\ result = Pending
    /\ excepted = FALSE /\ calls = <<>>
    /\ IdleExtract /\ IdleLoop /\ IdleHelper
    /\ IdleProvider /\ IdleRun

\* variant: one list for all invocations, as a default argument or a
\* module-level list would be
list_frame_shared(i) == 1

\* line 694: market_volatilities = [] is a local; the frame that holds the
\* list invocation i appends to and averages is its own
list_frame(i) == i

\* lines 591-597
PairSelectWindow(i) ==
    /\ invs[i].pc = "window"
    /\ invs' = [invs EXCEPT ![i].hours = window_hours(invs[i].timeframe),
                            ![i].pc = "token"]
    /\ UNCHANGED <<calcVars, extractVars, loopVars, helperVars,
                   providerVars, runVars>>

\* lines 666-672
PairFetchTokenHistory(i) ==
    /\ invs[i].pc = "token"
    /\ LET token_history ==
               get_historical_price_data(db[invs[i].token], invs[i].hours)
           prices == extract_prices(token_history)
       IN  invs' =
              IF token_history.hk = "raise"
              THEN [invs EXCEPT ![i].result = ReturnNone, ![i].pc = "done"]
              ELSE IF insufficient_prices(prices)
              THEN [invs EXCEPT ![i].token_prices = prices,
                                ![i].result = ReturnNone, ![i].pc = "done"]
              ELSE [invs EXCEPT ![i].token_prices = prices,
                                ![i].pc = "volatility"]
    /\ UNCHANGED <<calcVars, extractVars, loopVars, helperVars,
                   providerVars, runVars>>

\* lines 674-691
PairTokenVolatility(i) ==
    /\ invs[i].pc = "volatility"
    /\ LET chg == price_changes(invs[i].token_prices)
       IN  invs' =
              IF Len(chg) < MinChanges \/ stdev_fails(chg)
              THEN [invs EXCEPT ![i].token_changes = chg,
                                ![i].result = ReturnNone, ![i].pc = "done"]
              ELSE [invs EXCEPT ![i].token_changes = chg,
                                ![i].token_volatility = stdev(chg),
                                ![i].ref_idx = 1, ![i].pc = "refs"]
    /\ UNCHANGED <<calcVars, extractVars, loopVars, helperVars,
                   providerVars, runVars>>

\* lines 696-724: one iteration of for ref_token in reference_tokens
PairReferenceStep(i) ==
    /\ invs[i].pc = "refs"
    /\ invs[i].ref_idx <= Len(reference_tokens)
    /\ LET ref_token == reference_tokens[invs[i].ref_idx]
           f == list_frame(i)
           advanced == [invs EXCEPT ![i].ref_idx = invs[i].ref_idx + 1]
       IN  invs' =
              IF skip_reference(ref_token) THEN advanced
              ELSE [advanced EXCEPT ![f].market_volatilities =
                       invs[f].market_volatilities \o
                       ref_volatilities(
                           get_historical_price_data(db[ref_token],
                                                     invs[i].hours))]
    /\ UNCHANGED <<calcVars, extractVars, loopVars, helperVars,
                   providerVars, runVars>>

\* lines 726-742
PairMarketAverage(i) ==
    /\ invs[i].pc = "refs"
    /\ invs[i].ref_idx > Len(reference_tokens)
    /\ LET vols == invs[list_frame(i)].market_volatilities
           market_avg_volatility == market_average(vols)
           outcome ==
              IF vols = <<>> THEN ReturnNone
              ELSE IF average_positive(market_avg_volatility)
                      /\ market_avg_volatility.n # 0
              THEN ReturnValue(RDiv(invs[i].token_volatility,
                                    market_avg_volatility))
              ELSE ReturnNone
       IN  invs' = [invs EXCEPT ![i].result = outcome, ![i].pc = "done"]
    /\ UNCHANGED <<calcVars, extractVars, loopVars, helperVars,
                   providerVars, runVars>>

NextPair ==
    \/ \E i \in Invocations : PairSelectWindow(i)
    \/ \E i \in Invocations : PairFetchTokenHistory(i)
    \/ \E i \in Invocations : PairTokenVolatility(i)
    \/ \E i \in Invocations : PairReferenceStep(i)
    \/ \E i \in Invocations : PairMarketAverage(i)

SpecPair == InitPair /\ [][NextPair]_vars

-----------------------------------------------------------------------------
(* One call of test_volatility_with_errors, the helper of
   test_error_handling *)

HelperTokens == Tokens \cup {"MISSING"}

\* lines 1060-1106: the returned pair (result, error_scenarios); fails says
\* that sqlite3.connect("nonexistent.db") raises
test_volatility_with_errors(tok, refs, md, tf, fails) ==
    IF tf \notin {"1h", "24h", "7d"}
    THEN [result |-> ReturnNone, errors |-> <<"invalid_timeframe">>]
    ELSE IF refs = <<>>
    THEN [result |-> ReturnNone, errors |-> <<"empty_reference_tokens">>]
    ELSE IF ~md.isdict
    THEN \* line 1076 raises TypeError, caught at line 1104
         [result |-> ReturnNone,
          errors |-> <<"unexpected_exception_TypeError">>]
    ELSE IF tok \notin md.keys
    THEN [result |-> ReturnNone,
          errors |-> <<"missing_token_in_market_data">>]
    ELSE LET after_connect ==
                 IF fails THEN <<"database_connection_failed">> ELSE <<>>
             mock_empty_data == <<>>
             test_data == <<RInt(1)>>
         IN  IF Len(mock_empty_data) < 5
             THEN [result |-> ReturnNone,
                   errors |-> Append(after_connect,
                                     "insufficient_historical_data")]
             ELSE IF stdev_fails(test_data)
             THEN [result |-> ReturnNone,
                   errors |-> Append(after_connect,
                                     "statistics_calculation_error")]
             ELSE [result |-> ReturnValue(RInt(1)), errors |-> after_connect]

InitHelper ==
    /\ token \in HelperTokens
    /\ reference_tokens \in SeqUpTo(Tokens, MaxRefs)
    /\ market_data \in MarketDatas
    /\ timeframe \in Timeframes
    /\ connect_fails \in BOOLEAN
    /\ error_scenarios = <<>>
    /\ helper_result = Pending
    /\ hpc = "call"
    /\ db = <<>> /\ pc = "idle" /\ hours = 0
    /\ token_prices = <<>> /\ token_changes = <<>>
    /\ token_volatility = RInt(0)
    /\ market_volatilities = <<>> /\ ref_idx = 0
    /\ result = Pending
    /\ excepted = FALSE /\ calls = <<>>
    /\ IdleExtract /\ IdleLoop /\ IdlePair
    /\ IdleProvider /\ IdleRun

\* lines 1143-1148: result, errors = test_volatility_with_errors(...)
CallErrorHelper ==
    /\ hpc = "call"
    /\ LET r == test_volatility_with_errors(token, reference_tokens,
                                            market_data, timeframe,
                                            connect_fails)
       IN  /\ helper_result' = r.result
           /\ error_scenarios' = r.errors
    /\ hpc' = "done"
    /\ UNCHANGED <<connect_fails, calcVars, extractVars, loopVars, pairVars,
                 providerVars, runVars>>

NextHelper == CallErrorHelper

SpecHelper == InitHelper /\ [][NextHelper]_vars

-----------------------------------------------------------------------------
(* One call of the provider get_historical_price_data on a table of one
   token whose rows are stored in any order *)

MaxStored == 52      \* most rows of a stored table

Layouts == {"oldest_first", "newest_first", "rotated"}

\* n stored rows; row k has the price k and an age of its own, a multiple
\* of step hours plus one
StoredRows(n, layout, step) ==
    [k \in 1..n |->
        [price |-> PyNum(k),
         age |-> 1 + step * (CASE layout = "oldest_first" -> n - k
                               [] layout = "newest_first" -> k - 1
                               [] OTHER -> (n - k + (n \div 2)) % n)]]

InitProvider ==
    /\ \E n \in 0..MaxStored, layout \in Layouts, step \in {1, 20},
          err \in BOOLEAN :
          price_history = [err |-> err, rows |-> StoredRows(n, layout, step)]
    /\ arg_hours_back \in {window_hours(tf) : tf \in Timeframes}
    /\ provider_out = HistNone
    /\ ppc = "call"
    /\ IdleCalc /\ IdleExtract /\ IdleLoop /\ IdlePair /\ IdleHelper
    /\ IdleRun

\* lines 667, 701: get_historical_price_data(token, hours, timeframe)
CallProvider ==
    /\ ppc = "call"
    /\ LET r == get_historical_price_data(price_history, arg_hours_back)
       IN  IF r.hk = "raise"
           THEN provider_out' = provider_out /\ ppc' = "raised"
           ELSE provider_out' = r /\ ppc' = "done"
    /\ UNCHANGED <<price_history, arg_hours_back, calcVars, extractVars,
                   loopVars, pairVars, helperVars, runVars>>

NextProvider == CallProvider

SpecProvider == InitProvider /\ [][NextProvider]_vars

-----------------------------------------------------------------------------
(* One run of VolatilityTester.run_all_tests.  What a test method meets in
   its environment is one of: "ok" (the database is there and holds data),
   "degraded" (it is there, with tables, columns or rows missing), "error"
   (the file is missing or sqlite3 raises) *)

Envs == {"ok", "degraded", "error"}

\* variant: the schema test is called before the connection test
TestOrder_swapped ==
    <<"database_schema", "database_connection",
      "historical_data_availability", "extract_prices_function",
      "get_historical_price_data", "volatility_calculation",
      "complete_method", "data_flow_integration", "error_handling">>

\* lines 59-84: the test methods in the order run_all_tests calls them,
\* each by the test_name it records its result under
TestOrder ==
    <<"database_connection", "database_schema",
      "historical_data_availability", "extract_prices_function",
      "get_historical_price_data", "volatility_calculation",
      "complete_method", "data_flow_integration", "error_handling">>

\* lines 89-130: the status recorded
test_database_connection(env) ==
    IF env = "error" THEN "FAILED" ELSE "PASSED"

\* lines 132-189
test_database_schema(env) ==
    IF env = "error" THEN "FAILED"
    ELSE IF env = "degraded" THEN "PARTIAL"
    ELSE "PASSED"

\* lines 191-293
test_historical_data_availability(env) ==
    IF env = "error" THEN "FAILED"
    ELSE IF env = "degraded" THEN "NO_DATA"
    ELSE "PASSED"

\* lines 357-400: test_cases, a price standing for each positive float
ExtractCases ==
    <<[input |-> HistList(<<EntryDict(PyNum(1)), EntryDict(PyNum(2)),
                            EntryDict(PyNum(1))>>),
       expected_length |-> 3],
      [input |-> HistList(<<EntryList(PyNum(1)), EntryList(PyNum(2)),
                            EntryList(PyNum(1))>>),
       expected_length |-> 3],
      [input |-> HistList(<<EntryNum(1), EntryNum(2), EntryNum(1),
                            EntryNum(2)>>),
       expected_length |-> 4],
      [input |-> HistList(<<EntryDict(PyNum(1)), EntryList(PyNum(2)),
                            EntryNum(1)>>),
       expected_length |-> 3],
      [input |-> HistList(<<EntryNone, EntryDict(PyNone), EntryListEmpty,
                            EntryDictNoPrice>>),
       expected_length |-> 0],
      [input |-> HistList(<<>>), expected_length |-> 0],
      [input |-> HistNone, expected_length |-> 0]>>

\* lines 295-436: all_passed
test_extract_prices_function(env) ==
    IF \A k \in 1..Len(ExtractCases) :
          Len(extract_prices_test(ExtractCases[k].input))
             = ExtractCases[k].expected_length
    THEN "PASSED" ELSE "FAILED"

\* lines 438-532: PASSED when some scenario got data
test_get_historical_price_data(env) ==
    IF env = "ok" THEN "PASSED" ELSE "NO_DATA"

\* line 540
VolatilityTestData == <<100, 102, 98, 105, 103, 99, 107, 104>>

\* lines 534-580
test_volatility_calculation(env) ==
    IF Len(price_changes(VolatilityTestData)) >= 2
    THEN "PASSED" ELSE "INSUFFICIENT_DATA"

\* lines 582-832: PASSED when some invocation returned a number
test_complete_method(env) ==
    IF env = "ok" THEN "PASSED" ELSE "FAILED"

\* lines 834-1053: PASSED when integration_working
test_data_flow_integration(env) ==
    IF env = "ok" THEN "PASSED" ELSE "FAILED"

\* lines 1055-1164
test_error_handling(env) == "PASSED"

\* the test method recording under name, in an environment
run_test(name, env) ==
    CASE name = "database_connection" -> test_database_connection(env)
      [] name = "database_schema" -> test_database_schema(env)
      [] name = "historical_data_availability" ->
            test_historical_data_availability(env)
      [] name = "extract_prices_function" -> test_extract_prices_function(env)
      [] name = "get_historical_price_data" ->
            test_get_historical_price_data(env)
      [] name = "volatility_calculation" -> test_volatility_calculation(env)
      [] name = "complete_method" -> test_complete_method(env)
      [] name = "data_flow_integration" -> test_data_flow_integration(env)
      [] OTHER -> test_error_handling(env)

\* self.test_results[name] = {"status": status, ...}: an entry of that name
\* is replaced where it stands, a new one goes to the end
Store(results, name, status) ==
    IF \E k \in 1..Len(results) : results[k].name = name
    THEN [k \in 1..Len(results) |->
             IF results[k].name = name
             THEN [name |-> name, status |-> status] ELSE results[k]]
    ELSE Append(results, [name |-> name, status |-> status])

InitRun ==
    /\ test_results = <<>>
    /\ ran = <<>>
    /\ rpc = 0
    /\ IdleCalc /\ IdleExtract /\ IdleLoop /\ IdlePair /\ IdleHelper
    /\ IdleProvider

\* lines 59-84: the next test method is called and returns
RunTest ==
    /\ rpc >= 0
    /\ rpc < Len(TestOrder)
    /\ \E env \in Envs :
          LET name == TestOrder[rpc + 1]
          IN  /\ test_results' = Store(test_results, name, run_test(name, env))
              /\ ran' = Append(ran, name)
    /\ rpc' = rpc + 1
    /\ UNCHANGED <<calcVars, extractVars, loopVars, pairVars, helperVars,
                   providerVars>>

\* lines 87, 1166-1260: the report reads test_results
GenerateFinalReport ==
    /\ rpc = Len(TestOrder)
    /\ ran' = Append(ran, "generate_final_report")
    /\ rpc' = rpc + 1
    /\ UNCHANGED <<test_results, calcVars, extractVars, loopVars, pairVars,
                   helperVars, providerVars>>

NextRun == RunTest \/ GenerateFinalReport

SpecRun == InitRun /\ [][NextRun]_vars

-----------------------------------------------------------------------------
(* Vocabulary of the properties *)

\* a table cell that is a usable price: numeric and > 0
ValidCell(c) == c.t \in {"num", "numstr"} /\ c.n > 0

\* the rows of tok's table the query of the invocation selects (every
\* table of the model is shorter than Limit)
WindowRows(tok) ==
    IF db[tok].err THEN {}
    ELSE {k \in 1..Len(db[tok].rows) : db[tok].rows[k].age <= hours}

ValidCount(tok) ==
    Cardinality({k \in WindowRows(tok) : ValidCell(db[tok].rows[k].price)})

\* the price series of a token, as the query of the invocation returns it
WindowSeries(tok) ==
    IF db[tok].err THEN <<>>
    ELSE SelectSeq(db[tok].rows, LAMBDA r : r.age <= hours)

RefSet == {reference_tokens[k] : k \in 1..Len(reference_tokens)}

Done == pc = "done"

-----------------------------------------------------------------------------
(* C1: whenever fewer than 5 valid (numeric, > 0) prices are extracted from
   the subject token's history, calculate_relative_volatility returns None,
   whatever the reference tokens, their histories and market_data are. *)
C1_InsufficientData ==
    (Done /\ ValidCount(token) < 5) => result = ReturnNone

\* the subject has 5 or more rows but fewer than 5 valid prices, while a
\* listed reference token known to market_data has ample data
C1_Witness ==
    /\ Done
    /\ ValidCount(token) < 5
    /\ ~db[token].err /\ Len(db[token].rows) >= 5
    /\ \E r \in RefSet :
          r # token /\ r \in market_data.keys /\ ValidCount(r) >= 5
    /\ result = ReturnNone

(* C2: when the subject token has at least 5 valid prices but no reference
   token yields a volatility (the reference list is empty, or every
   reference token's provider call returns no data, or every reference
   token has fewer than 5 valid prices), the result is None. *)
C2_NoReferenceData ==
    (/\ Done
     /\ ValidCount(token) >= 5
     /\ \A r \in RefSet :
           \/ ~market_data.isdict
           \/ r \notin market_data.keys
           \/ ValidCount(r) < 5)
    => result = ReturnNone

\* the subject passed its checks, the history of every listed reference
\* token was requested and held rows but fewer than 5 valid prices, and the
\* result is None
C2_Witness ==
    /\ Done
    /\ ValidCount(token) >= 5
    /\ token_volatility.n > 0
    /\ Len(calls) = 1 + Len(reference_tokens)
    /\ \E r \in RefSet : WindowRows(r) # {} /\ ValidCount(r) < 5
    /\ \A r \in RefSet : r \in market_data.keys /\ ValidCount(r) < 5
    /\ result = ReturnNone

(* C3: when the mean of the reference volatilities is exactly zero, the
   result is None: no division by zero is attempted (the except clause of
   line 740 does not run) and no value is returned. *)
C3_ZeroMarketVolatility ==
    (/\ Done
     /\ market_volatilities # <<>>
     /\ ref_idx > Len(reference_tokens)
     /\ \A k \in 1..Len(market_volatilities) : market_volatilities[k].n = 0)
    => (result = ReturnNone /\ ~excepted)

\* a subject of positive volatility against reference series of zero
\* volatility
C3_Witness ==
    /\ Done
    /\ token_volatility.n > 0
    /\ market_volatilities # <<>>
    /\ \A k \in 1..Len(market_volatilities) : market_volatilities[k].n = 0
    /\ result = ReturnNone

\* the subject's series is that of every listed reference token
SameSeriesAsEveryReference ==
    /\ reference_tokens # <<>>
    /\ \A r \in RefSet : WindowSeries(r) = WindowSeries(token)

(* C4, as claimed: whenever the subject token's price series is
   element-wise identical to the series of every reference token (each of
   them known to market_data and holding 5 or more valid prices), the
   result is exactly 1.0. *)
C4_ParityAlways ==
    (/\ Done
     /\ SameSeriesAsEveryReference
     /\ market_data.isdict /\ RefSet \subseteq market_data.keys
     /\ ValidCount(token) >= 5)
    => result = ReturnValue(RInt(1))

(* C4, amended: whenever the subject token's price series is element-wise
   identical to the series of every reference token, that series yields 5
   or more valid prices and a volatility > 0, and at least one reference
   token is a key of market_data, the result is exactly 1.0. *)
C4_Parity ==
    (/\ Done
     /\ SameSeriesAsEveryReference
     /\ market_data.isdict /\ RefSet \cap market_data.keys # {}
     /\ ValidCount(token) >= 5
     /\ token_volatility.n > 0)
    => result = ReturnValue(RInt(1))

\* two different tokens with one and the same series of positive volatility
C4_Witness ==
    /\ Done
    /\ SameSeriesAsEveryReference
    /\ \E r \in RefSet : r # token
    /\ Len(market_volatilities) = 2
    /\ token_volatility.n > 0
    /\ result = ReturnValue(RInt(1))

-----------------------------------------------------------------------------
(* Vocabulary of the extraction properties *)

ExtractDone == xpc \in {"done", "done_test"}

\* x as a plain number, as {"price": x} or as (x, timestamp)
WrapsNumber(e) ==
    \/ e.kind = "num"
    \/ e.kind \in {"dict", "list"} /\ e.has /\ e.val.t = "num"

\* the sequence of the bare x values
BareValues(h) == HistList([k \in 1..Len(h.items) |-> EntryNum(h.items[k].val.n)])

KindsOf(h) == {h.items[k].kind : k \in 1..Len(h.items)}

(* C5: extract_prices applied to a sequence that mixes plain numbers,
   {"price": x} records and (x, timestamp) pairs returns the same list, in
   the same order, as extract_prices applied to the bare x values. *)
C5_HeterogeneousExtraction ==
    (/\ ExtractDone
     /\ history_data.hk = "list"
     /\ \A k \in 1..Len(history_data.items) : WrapsNumber(history_data.items[k]))
    => /\ xpc = "done" => prices_out = extract_prices(BareValues(history_data))
       /\ xpc = "done_test" =>
              prices_out = extract_prices_test(BareValues(history_data))

\* the three shapes in one input, every price kept
C5_Witness ==
    /\ xpc = "done"
    /\ history_data.hk = "list"
    /\ \A k \in 1..Len(history_data.items) : WrapsNumber(history_data.items[k])
    /\ KindsOf(history_data) = {"num", "dict", "list"}
    /\ Len(prices_out) = 3
    /\ prices_out[1] # prices_out[2]

\* an entry of the malformed kinds: None, no 'price' field, a None or
\* non-numeric price, an empty list, a price <= 0
Malformed(e) ==
    \/ e.kind = "none"
    \/ e.kind \in {"dict", "list"} /\ ~e.has
    \/ e.kind \in {"dict", "list"} /\ e.has /\ e.val.t \in {"none", "badstr"}
    \/ /\ e.kind \in {"num", "dict", "list"}
       /\ e.val.t \in {"num", "numstr"}
       /\ e.val.n <= 0

\* an entry that carries a usable price
WellFormed(e) ==
    /\ e.kind = "num" \/ (e.kind \in {"dict", "list"} /\ e.has)
    /\ e.val.t \in {"num", "numstr"}
    /\ e.val.n > 0

\* the prices of the well-formed entries, in order
RECURSIVE UsablePrices(_)
UsablePrices(items) ==
    IF items = <<>> THEN <<>>
    ELSE (IF WellFormed(Head(items)) THEN <<Head(items).val.n>> ELSE <<>>)
         \o UsablePrices(Tail(items))

\* every row the query selects from tok's table is malformed
AllCellsMalformed(tok) ==
    /\ WindowRows(tok) # {}
    /\ \A k \in WindowRows(tok) : ~ValidCell(db[tok].rows[k].price)

(* C6: malformed price entries never raise: extract_prices drops every
   entry that is None, has no 'price' field, has a None or non-numeric
   price, is an empty list or has a price <= 0, keeping the usable prices
   only; and calculate_relative_volatility ends with a number or None,
   never an exception, and with None (no except clause run) when every
   entry of the subject's history is malformed. *)
C6_MalformedDropped ==
    /\ (/\ ExtractDone
        /\ \A k \in 1..Len(history_data.items) :
              Malformed(history_data.items[k]) \/ WellFormed(history_data.items[k]))
       => prices_out = UsablePrices(history_data.items)
    /\ Done => result.kind \in {"none", "value"}
    /\ (Done /\ AllCellsMalformed(token)) =>
          (token_prices = <<>> /\ result = ReturnNone /\ ~excepted)
    /\ (pc \in {"volatility", "refs"} \/ (Done /\ token_prices # <<>>)) =>
          /\ Len(token_prices) = ValidCount(token)
          /\ \A k \in 1..Len(token_prices) : token_prices[k] > 0

\* a subject history of 5 rows (NULL, 0, text, -1, NULL) ends with None
C6_Witness ==
    /\ Done
    /\ AllCellsMalformed(token)
    /\ Cardinality(WindowRows(token)) >= 5
    /\ \E k \in WindowRows(token) : db[token].rows[k].price.t = "badstr"
    /\ \E k \in WindowRows(token) : db[token].rows[k].price = PyNum(0)
    /\ result = ReturnNone

\* a provider call of the invocation met a database error
SubjectCallFailed == Len(calls) >= 1 /\ db[token].err
ReferenceCallFailed == \E k \in 2..Len(calls) : db[calls[k][1]].err

(* C7, as claimed: an exception raised by the price-history provider, for
   the subject token or for a reference token, propagates to the caller. *)
C7_ProviderExceptionPropagates ==
    (Done /\ (SubjectCallFailed \/ ReferenceCallFailed)) => result = Raised

(* C7, amended: an exception raised inside the price-history provider never
   reaches the caller: get_historical_price_data catches it and returns
   None, so a failure for the subject token gives the no-result outcome
   (without any reference history being requested and without the except
   clause of line 740 running), and a failure for a reference token only
   makes that token add no volatility. *)
C7_ProviderExceptionSwallowed ==
    /\ Done => result # Raised
    /\ (Done /\ SubjectCallFailed) =>
          (result = ReturnNone /\ ~excepted /\ Len(calls) = 1)
    /\ Len(market_volatilities)
          <= Cardinality({k \in 2..Len(calls) : ~db[calls[k][1]].err})
    /\ (Done /\ Len(calls) >= 2 /\ \A k \in 2..Len(calls) : db[calls[k][1]].err)
          => result = ReturnNone

\* the history of one reference token failed, another reference token gave
\* a volatility, and a number was returned
C7_Witness ==
    /\ Done
    /\ ReferenceCallFailed
    /\ Len(calls) = 3
    /\ Len(market_volatilities) = 1
    /\ result.kind = "value"

(* C8: the lookback window passed to the provider is 24 hours for timeframe
   "1h", 168 hours for "24h" and 720 hours for "7d"; any other timeframe is
   given the 720-hour window and the computation proceeds (the provider is
   called, nothing is rejected). *)
C8_LookbackWindow ==
    LET expected == CASE timeframe = "1h" -> 24
                      [] timeframe = "24h" -> 168
                      [] OTHER -> 720
    IN  /\ \A k \in 1..Len(calls) : calls[k][2] = expected
        /\ pc \notin {"window", "token"} => Len(calls) >= 1
        /\ pc # "window" => hours = expected

\* an unknown timeframe whose invocation ends with a number, every request
\* made with 720 hours
C8_Witness ==
    /\ Done
    /\ timeframe = "invalid"
    /\ Len(calls) >= 2
    /\ \A k \in 1..Len(calls) : calls[k][2] = 720
    /\ result.kind = "value"

-----------------------------------------------------------------------------
(* Properties of the percentage-change loop; positions are Python's *)

Positions == 0..(Len(series) - 1)

InEmitted(i) == \E k \in 1..Len(emitted) : emitted[k] = i

(* C9, as claimed: a zero or negative price at position i has the
   transition from position i-1 to position i skipped, and no division
   error is raised. *)
C9_ZeroPriceSkipsIncoming ==
    LoopDone =>
       /\ \A i \in Positions : (i >= 1 /\ At(series, i) <= 0) => ~InEmitted(i)
       /\ ~divided_by_zero

(* C9, amended: a zero or negative price at position i has the transition
   from position i to position i+1, whose prior price it is, skipped; the
   transition from i-1 to i is still emitted when the price at i-1 is > 0;
   no division error is raised. *)
C9_ZeroPriceSkipsOutgoing ==
    LoopDone =>
       /\ \A i \in Positions :
             (At(series, i) <= 0 /\ i + 1 \in Positions) => ~InEmitted(i + 1)
       /\ \A i \in Positions :
             (i >= 1 /\ At(series, i) <= 0 /\ At(series, i - 1) > 0)
                => InEmitted(i)
       /\ ~divided_by_zero

\* a zero or negative price between two others: the step into it emitted,
\* the step out of it skipped
C9_Witness ==
    /\ LoopDone
    /\ \E i \in Positions :
          /\ i >= 1 /\ i + 1 \in Positions
          /\ At(series, i) <= 0
          /\ InEmitted(i) /\ ~InEmitted(i + 1)

(* C10: the percentage-change series holds, in order, the value
   (price[i]/price[i-1] - 1) * 100 for each i in 1..len(prices)-1 whose
   prior price is > 0, and nothing for a step whose prior price is <= 0;
   no clamping or smoothing is applied. *)
C10_ChangeSeries ==
    LoopDone =>
       /\ Len(changes) = Len(emitted)
       /\ \A i \in Positions :
             InEmitted(i) <=> (i >= 1 /\ At(series, i - 1) > 0)
       /\ \A k \in 1..Len(emitted) :
             \A j \in 1..Len(emitted) : k < j => emitted[k] < emitted[j]
       /\ \A k \in 1..Len(emitted) :
             LET i == emitted[k]
             IN  changes[k] =
                    Rat((At(series, i) - At(series, i - 1)) * 100, At(series, i - 1))

\* a series with a skipped step, a rise and a fall
C10_Witness ==
    /\ LoopDone
    /\ Len(changes) >= 2
    /\ Len(changes) < Len(series) - 1
    /\ \E k \in 1..Len(changes) : RGt(changes[k], RInt(0))
    /\ \E k \in 1..Len(changes) : RGt(RInt(0), changes[k])

\* the series holds only prices > 0
AllPositive == \A i \in Positions : At(series, i) > 0

StrictlyIncreasing ==
    \A i \in Positions : i >= 1 => At(series, i) > At(series, i - 1)

StrictlyDecreasing ==
    \A i \in Positions : i >= 1 => At(series, i) < At(series, i - 1)

(* C11: over a strictly increasing series of positive prices every step
   yields a percentage change and each change is > 0; over a strictly
   decreasing series of positive prices every step yields a change and
   each change is < 0. *)
C11_MonotoneSign ==
    (LoopDone /\ AllPositive) =>
       /\ StrictlyIncreasing =>
             /\ Len(changes) = Len(series) - 1 \/ series = <<>>
             /\ \A k \in 1..Len(changes) : RGt(changes[k], RInt(0))
       /\ StrictlyDecreasing =>
             /\ Len(changes) = Len(series) - 1 \/ series = <<>>
             /\ \A k \in 1..Len(changes) : RGt(RInt(0), changes[k])

\* a fall over four positive prices, three changes all below zero
C11_Witness ==
    /\ LoopDone /\ AllPositive /\ StrictlyDecreasing
    /\ Len(series) >= 4
    /\ Len(changes) = Len(series) - 1
    /\ \A k \in 1..Len(changes) : RGt(RInt(0), changes[k])

-----------------------------------------------------------------------------
(* Vocabulary of the market-average properties *)

\* the usable prices of tok inside the window, oldest first
ValidPrices(tok) ==
    LET w == SelectSeq(WindowSeries(tok), LAMBDA r : ValidCell(r.price))
    IN  [k \in 1..Len(w) |-> w[k].price.n]

\* the positions of reference_tokens whose symbol is a key of market_data
\* and has sufficient data
Contributing(k) ==
    /\ market_data.isdict
    /\ reference_tokens[k] \in market_data.keys
    /\ Len(ValidPrices(reference_tokens[k])) >= 5
    /\ Len(ValidPrices(reference_tokens[k])) - 1 >= 2

ContributingPositions == {k \in 1..Len(reference_tokens) : Contributing(k)}

\* the contributing positions in list order
ContributingSeq ==
    SelectSeq([k \in 1..Len(reference_tokens) |-> k], Contributing)

ReturnsValue == Done /\ result.kind = "value"

(* C12: the returned ratio equals token_volatility divided by the
   arithmetic mean of the volatilities of exactly those reference tokens
   that have sufficient data (5 or more valid prices, 2 or more changes);
   a reference token with insufficient data adds nothing to the sum and is
   not counted in the denominator of the mean. *)
C12_RatioOverContributors ==
    ReturnsValue =>
       /\ Len(market_volatilities) = Cardinality(ContributingPositions)
       /\ \A j \in 1..Len(market_volatilities) :
             market_volatilities[j] =
                stdev(price_changes(
                    ValidPrices(reference_tokens[ContributingSeq[j]])))
       /\ RMul(result.val, RSum(market_volatilities)) =
             RMul(token_volatility, RInt(Cardinality(ContributingPositions)))

\* two references that are keys of market_data: one has some valid prices
\* but fewer than 5 and is skipped, the mean is taken over the other alone
C12_Witness ==
    /\ ReturnsValue
    /\ Len(reference_tokens) = 2
    /\ RefSet \subseteq market_data.keys
    /\ Cardinality(ContributingPositions) = 1
    /\ \E k \in 1..Len(reference_tokens) :
          /\ ~Contributing(k)
          /\ Len(ValidPrices(reference_tokens[k])) >= 1
    /\ Len(market_volatilities) = 1
    /\ result.val = RDiv(token_volatility, market_volatilities[1])

-----------------------------------------------------------------------------
(* Vocabulary of the volatility properties *)

\* the sum of squared deviations of xs from their mean, computed as
\* sum(x^2) - sum(x)^2 / N
SquaredDeviations(xs) ==
    LET total == RSum(xs)
        squares == RSum([k \in 1..Len(xs) |-> RMul(xs[k], xs[k])])
    IN  RSub(squares, RDiv(RMul(total, total), RInt(Len(xs))))

\* v is the sample standard deviation of xs to the precision of the square
\* root: v^2 (N-1) <= sum of squared deviations < (v + 1/SqrtScale)^2 (N-1)
IsSampleStdev(v, xs) ==
    LET next == RAdd(v, Rat(1, SqrtScale))
        n1 == RInt(Len(xs) - 1)
    IN  /\ Len(xs) >= 2
        /\ ~RGt(RMul(RMul(v, v), n1), SquaredDeviations(xs))
        /\ RGt(RMul(RMul(next, next), n1), SquaredDeviations(xs))

\* the subject's volatility has been computed
VolatilityComputed == pc \in {"refs", "done"} /\ ref_idx >= 1

(* C13: volatility is the sample standard deviation of the
   percentage-change series: its square times (N-1) equals the sum of the
   squared deviations of the N changes from their mean (N-1 denominator,
   not N), for the subject token and for each reference token alike. *)
C13_SampleStdev ==
    /\ VolatilityComputed => IsSampleStdev(token_volatility, token_changes)
    /\ \A j \in 1..Len(market_volatilities) :
          IsSampleStdev(market_volatilities[j],
                        price_changes(
                            ValidPrices(reference_tokens[ContributingSeq[j]])))

\* a subject and a different reference token, both of volatility > 0, and a
\* subject whose N-denominator deviation would be a different number
C13_Witness ==
    /\ ReturnsValue
    /\ token_volatility.n > 0
    /\ ~IsSampleStdev(token_volatility, token_changes \o <<mean(token_changes)>>)
    /\ \E j \in 1..Len(market_volatilities) :
          /\ reference_tokens[ContributingSeq[j]] # token
          /\ market_volatilities[j].n > 0
          /\ market_volatilities[j] # token_volatility

-----------------------------------------------------------------------------
(* Vocabulary of the properties of two invocations *)

PairDone(i) == invs # <<>> /\ invs[i].pc = "done"

SameArguments ==
    /\ invs[1].token = invs[2].token
    /\ invs[1].timeframe = invs[2].timeframe

(* C14: determinism: two invocations of calculate_relative_volatility with
   the same token, reference_tokens, market_data and timeframe, for which
   the provider returns the same price sequences, produce the same outcome:
   the same ratio, or both no result. *)
C14_Determinism ==
    (PairDone(1) /\ PairDone(2) /\ SameArguments)
       => invs[1].result = invs[2].result

\* two invocations with the same arguments and two references of different
\* volatility, both returning the same ratio
C14_Witness ==
    /\ PairDone(1) /\ PairDone(2) /\ SameArguments
    /\ invs[1].result.kind = "value"
    /\ invs[1].result = invs[2].result
    /\ Len(invs[1].market_volatilities) = 2
    /\ invs[1].market_volatilities[1] # invs[1].market_volatilities[2]

(* C16: invocations of calculate_relative_volatility for different tokens
   are independent: under any interleaving of the provider calls and
   computation steps of two concurrent invocations, each invocation returns
   the outcome it returns when run alone. *)
C16_Independence ==
    \A i \in Invocations :
       (PairDone(i) /\ invs[1].token # invs[2].token) =>
          invs[i].result =
             calculate_relative_volatility(invs[i].token, reference_tokens,
                                           market_data, invs[i].timeframe)

\* one invocation has returned a ratio while the other, for a different
\* token, is in the middle of its reference loop
C16_Witness ==
    /\ PairDone(1)
    /\ invs[1].result.kind = "value"
    /\ invs[1].token # invs[2].token
    /\ invs[2].pc = "refs"
    /\ invs[2].ref_idx = 2
    /\ invs[2].market_volatilities # <<>>
    /\ Len(reference_tokens) >= 2

-----------------------------------------------------------------------------
(* C15: calculate_relative_volatility and extract_prices leave every
   caller-supplied value unchanged: reference_tokens, market_data and each
   sequence handed to extract_prices have the same elements in the same
   order after every step as before it, on every return path including the
   no-result paths; the table the provider reads is not written either. *)
C15_ArgumentsUnchanged ==
    [][/\ reference_tokens' = reference_tokens
       /\ market_data' = market_data
       /\ history_data' = history_data
       /\ db' = db]_vars

\* a no-result return after the reference loop went over two references,
\* each of them looked up
C15_Witness ==
    /\ Done
    /\ result = ReturnNone
    /\ Len(reference_tokens) = 2
    /\ ref_idx > Len(reference_tokens)
    /\ Len(calls) = 3
    /\ RefSet \subseteq market_data.keys

-----------------------------------------------------------------------------
(* Vocabulary of the reference-loop properties *)

\* the loop over reference_tokens has run to its end
LoopFinished == pc \in {"refs", "done"} /\ ref_idx > Len(reference_tokens)

\* how many times r is listed in reference_tokens
Occurrences(r) ==
    Cardinality({k \in 1..Len(reference_tokens) : reference_tokens[k] = r})

\* how many provider calls of the reference loop were for r
CallsFor(r) == Cardinality({k \in 2..Len(calls) : calls[k][1] = r})

\* how many entries of market_volatilities come from r
EntriesFor(r) ==
    Cardinality({j \in 1..Len(market_volatilities) :
                    reference_tokens[ContributingSeq[j]] = r})

(* C17: duplicates and self-inclusion in reference_tokens are tolerated
   without error and without de-duplication: a reference symbol listed k
   times is looked up k times and, having sufficient data, contributes k
   entries to the market-average volatility; the subject token, when it
   appears in reference_tokens, is included in its own baseline with its
   own volatility. *)
C17_DuplicatesAndSelf ==
    (LoopFinished /\ market_data.isdict) =>
       /\ ~excepted
       /\ Len(market_volatilities) = Cardinality(ContributingPositions)
       /\ \A r \in RefSet \cap market_data.keys :
             /\ CallsFor(r) = Occurrences(r)
             /\ Len(ValidPrices(r)) >= 5 => EntriesFor(r) = Occurrences(r)
       /\ token \in RefSet \cap market_data.keys =>
             /\ EntriesFor(token) = Occurrences(token)
             /\ \A j \in 1..Len(market_volatilities) :
                   reference_tokens[ContributingSeq[j]] = token
                      => market_volatilities[j] = token_volatility

\* the subject listed twice as its own reference: looked up three times in
\* all, two entries in the baseline, ratio 1
C17_Witness ==
    /\ ReturnsValue
    /\ reference_tokens = <<token, token>>
    /\ Len(calls) = 3
    /\ market_volatilities = <<token_volatility, token_volatility>>
    /\ result = ReturnValue(RInt(1))

-----------------------------------------------------------------------------
\* the provider's ways of saying that it has no data: None, a string such
\* as "Never", a value that cannot be iterated, an empty sequence
NoDataSignal(h) ==
    \/ h.hk \in {"none", "str", "noniter"}
    \/ h.hk = "list" /\ h.items = <<>>

(* C18: every provider no-data signal is handled as absent data, not as an
   error: when the provider returns None, a string (such as "Never"), a
   non-iterable value or an empty sequence, extract_prices returns the
   empty list and nothing is raised. *)
C18_NoDataIsEmpty ==
    (xpc # "call" /\ xpc # "idle" /\ NoDataSignal(history_data)) =>
       /\ ExtractDone
       /\ prices_out = <<>>

\* extract_prices of the invocation has returned [] for a value that is
\* not iterable
C18_Witness ==
    /\ xpc = "done"
    /\ history_data = HistNonIter
    /\ prices_out = <<>>

-----------------------------------------------------------------------------
(* Vocabulary of the properties of the error-handling helper *)

HelperDone == hpc = "done"

InvalidTimeframe == timeframe \notin {"1h", "24h", "7d"}

EmptyReferenceTokens == reference_tokens = <<>>

MissingToken == market_data.isdict /\ token \notin market_data.keys

\* the "Valid input" case
ValidInput ==
    /\ ~InvalidTimeframe /\ ~EmptyReferenceTokens
    /\ market_data.isdict /\ token \in market_data.keys

(* C19: the error-handling test helper test_volatility_with_errors detects
   no error scenario for the "Valid input" case (timeframe in 1h, 24h, 7d,
   non-empty reference_tokens, token present in market_data) and detects
   at least one error scenario, returning None, for each of the
   invalid-timeframe, empty-reference-tokens and missing-token cases. *)
C19_HelperScenarios ==
    HelperDone =>
       /\ ValidInput => error_scenarios = <<>>
       /\ (InvalidTimeframe \/ EmptyReferenceTokens \/ MissingToken) =>
             /\ error_scenarios # <<>>
             /\ helper_result = ReturnNone

-----------------------------------------------------------------------------
\* the positions of reference_tokens whose symbol is a key of market_data
KeyedPositions ==
    {k \in 1..Len(reference_tokens) :
        market_data.isdict /\ reference_tokens[k] \in market_data.keys}

EmptyMarketData == market_data.isdict /\ market_data.keys = {}

(* C20: a reference token that is not a key of market_data is skipped
   before any history lookup: the provider is never called for it and it
   contributes no volatility, even when its price history is ample;
   consequently with an empty market_data the result is always no
   result. *)
C20_SkippedBeforeLookup ==
    /\ \A k \in 2..Len(calls) :
          market_data.isdict /\ calls[k][1] \in market_data.keys
    /\ Len(calls) <= 1 + Cardinality(KeyedPositions)
    /\ Len(market_volatilities) <= Cardinality(KeyedPositions)
    /\ (Done /\ EmptyMarketData) =>
          /\ result = ReturnNone
          /\ market_volatilities = <<>>
          /\ Len(calls) <= 1

\* an empty market_data and two references with ample history: the loop
\* ran to its end, the subject's lookup was the only one, no result
C20_Witness ==
    /\ Done /\ EmptyMarketData
    /\ LoopFinished
    /\ Len(reference_tokens) = 2
    /\ \A r \in RefSet : Len(ValidPrices(r)) >= 5
    /\ \E r \in RefSet : r # token
    /\ calls = <<<<token, hours>>>>
    /\ result = ReturnNone

-----------------------------------------------------------------------------
(* Vocabulary of the call-order properties *)

\* the reference positions the loop has gone over so far
PositionsDone ==
    IF pc \in {"refs", "done"} /\ ref_idx >= 1
    THEN 1..(IF ref_idx > Len(reference_tokens)
             THEN Len(reference_tokens) ELSE ref_idx - 1)
    ELSE {}

\* the provider calls after the first
ReferenceCalls == SubSeq(calls, 2, Len(calls))

\* the request for the symbol at each position of a sequence of positions
Requests(ps) == [j \in 1..Len(ps) |-> <<reference_tokens[ps[j]], hours>>]

\* the positions gone over, in list order
DoneSeq == [k \in PositionsDone |-> k]

\* the subject comes first, references only after the subject passed its
\* checks, one hours value throughout
SubjectFirst ==
    /\ calls # <<>> => calls[1] = <<token, hours>>
    /\ Len(calls) >= 2 =>
          /\ Len(token_prices) >= 5
          /\ Len(token_changes) >= 2
          /\ VolatilityComputed
    /\ \A k \in 1..Len(calls) : calls[k][2] = window_hours(timeframe)

(* C21, as claimed: the subject token's history is requested first; no
   reference token's history is requested unless the subject token passed
   its sufficiency checks; reference histories are then requested in
   reference_tokens order, once per listed occurrence; every request of
   the invocation uses the same hours value. *)
C21_CallOrderEveryOccurrence ==
    /\ SubjectFirst
    /\ market_data.isdict => ReferenceCalls = Requests(DoneSeq)

(* C21, amended: the subject token's history is requested first; no
   reference token's history is requested unless the subject token passed
   its sufficiency checks; reference histories are then requested in
   reference_tokens order, once per listed occurrence of a symbol that is
   a key of market_data and never for another symbol; every request of the
   invocation uses the same hours value. *)
C21_CallOrder ==
    /\ SubjectFirst
    /\ ReferenceCalls =
          Requests(SelectSeq(DoneSeq, LAMBDA k : k \in KeyedPositions))

\* two different references, both keys of market_data, requested after the
\* subject in list order
C21_Witness ==
    /\ Done /\ LoopFinished
    /\ Len(reference_tokens) = 2
    /\ reference_tokens[1] # reference_tokens[2]
    /\ reference_tokens[1] # token
    /\ calls = <<<<token, hours>>, <<reference_tokens[1], hours>>,
                 <<reference_tokens[2], hours>>>>

-----------------------------------------------------------------------------
(* Vocabulary of the ratio properties *)

\* the volatility of every contributing reference position, in list order
ExpectedVolatilities ==
    [j \in 1..Len(ContributingSeq) |->
        stdev(price_changes(ValidPrices(reference_tokens[ContributingSeq[j]])))]

\* the subject has 5 or more valid prices and its changes are all equal
ZeroVarianceSubject ==
    LET chg == price_changes(ValidPrices(token))
    IN  /\ Len(ValidPrices(token)) >= 5
        /\ \A k \in 1..Len(chg) : chg[k] = chg[1]

(* C22: whenever calculate_relative_volatility returns a number, the
   number is >= 0 and was obtained by dividing by a market-average
   volatility that is > 0; a subject token whose percentage changes are
   all equal (zero variance) yields the ratio 0, not the no-result
   outcome, when the market average is positive. *)
C22_NonNegativeRatio ==
    /\ ReturnsValue =>
          /\ result.val.n >= 0 /\ result.val.d > 0
          /\ market_volatilities # <<>>
          /\ RGt(mean(market_volatilities), RInt(0))
          /\ RMul(result.val, mean(market_volatilities)) = token_volatility
    /\ (/\ Done
        /\ ZeroVarianceSubject
        /\ ExpectedVolatilities # <<>>
        /\ RGt(RSum(ExpectedVolatilities), RInt(0)))
       => result = ReturnValue(RInt(0))

\* a subject without variance against a reference with variance: ratio 0
C22_Witness ==
    /\ ReturnsValue
    /\ ZeroVarianceSubject
    /\ token_volatility = RInt(0)
    /\ \E j \in 1..Len(market_volatilities) : market_volatilities[j].n > 0
    /\ result = ReturnValue(RInt(0))

-----------------------------------------------------------------------------
\* the subject passed the check of line 671
PassedPriceCheck == pc \in {"refs", "done"} /\ Len(token_prices) >= 5

(* C23: because extract_prices keeps only prices > 0, a subject token
   that passes the >= 5 prices check always has exactly len(prices) - 1,
   hence 4 or more, percentage changes; the "fewer than 2 changes" return
   and the StatisticsError return of calculate_relative_volatility are
   never taken. *)
C23_ChangesOnePerStep ==
    /\ \A k \in 1..Len(token_prices) : token_prices[k] > 0
    /\ PassedPriceCheck =>
          /\ Len(token_changes) = Len(token_prices) - 1
          /\ Len(token_changes) >= 4
          /\ ~stdev_fails(token_changes)
          /\ VolatilityComputed

\* a subject whose table holds unusable cells between the usable ones:
\* five or more prices kept, one change per step between them
C23_Witness ==
    /\ PassedPriceCheck
    /\ Cardinality(WindowRows(token)) > Len(token_prices)
    /\ \E k \in WindowRows(token) :
          db[token].rows[k].price.t = "num" /\ db[token].rows[k].price.n = 0
    /\ Len(token_changes) = Len(token_prices) - 1
    /\ Done

-----------------------------------------------------------------------------
(* Vocabulary of the selection properties *)

\* entry e holds the number x as its price: bare, under 'price', as first
\* element or as attribute
Carries(e, x) ==
    /\ e.kind \in {"num", "dict", "list", "obj"}
    /\ e.kind \in {"dict", "list"} => e.has
    /\ e.val.t \in {"num", "numstr"}
    /\ e.val.n = x

\* out picks prices of entries of items, each entry at most once, in order
RECURSIVE IsSelection(_, _)
IsSelection(out, items) ==
    IF out = <<>> THEN TRUE
    ELSE IF items = <<>> THEN FALSE
    ELSE \/ Carries(Head(items), Head(out))
            /\ IsSelection(Tail(out), Tail(items))
         \/ IsSelection(out, Tail(items))

(* C24: for every input, the list returned by extract_prices contains only
   values > 0, is no longer than the input sequence, and preserves the
   relative order of the entries it keeps: it is an order-preserving
   selection of the input's prices, with at most one output per input
   entry. *)
C24_OrderedSelection ==
    ExtractDone =>
       /\ \A k \in 1..Len(prices_out) : prices_out[k] > 0
       /\ Len(prices_out) <= Len(history_data.items)
       /\ IsSelection(prices_out, history_data.items)

\* three entries, the middle one dropped, the two kept prices different
\* and in input order
C24_Witness ==
    /\ ExtractDone
    /\ Len(history_data.items) = 3
    /\ Len(prices_out) = 2
    /\ prices_out[1] > prices_out[2]
    /\ Carries(history_data.items[1], prices_out[1])
    /\ ~Carries(history_data.items[2], prices_out[1])
    /\ ~Carries(history_data.items[2], prices_out[2])
    /\ Carries(history_data.items[3], prices_out[2])

-----------------------------------------------------------------------------
\* an input built from None, strings, numbers, dict records and list or
\* tuple records
PlainInput(h) ==
    \A k \in 1..Len(h.items) :
       h.items[k].kind \in {"none", "str", "num", "dict", "list"}

(* C25: the two extract_prices implementations of perform.py (the one
   under test in test_extract_prices_function and the one nested in
   calculate_relative_volatility) return the same list for every input
   built from None, strings, numbers, dict records and list/tuple
   records. *)
C25_ImplementationsAgree ==
    PlainInput(history_data) =>
       /\ xpc = "done" => prices_out = extract_prices_test(history_data)
       /\ xpc = "done_test" => prices_out = extract_prices(history_data)

\* the implementation under test has returned two prices out of a bare
\* number, a dict record and a tuple record, one of them dropped
C25_Witness ==
    /\ xpc = "done_test"
    /\ PlainInput(history_data)
    /\ KindsOf(history_data) = {"num", "dict", "list"}
    /\ Len(prices_out) = 2
    /\ prices_out = extract_prices(history_data)

-----------------------------------------------------------------------------
(* Vocabulary of the provider properties; a stored row is known by its
   price, which is its position in the table *)

ProviderReturned == ppc \in {"done", "raised"}

\* the stored rows the WHERE clause matches
Matching ==
    {k \in 1..Len(price_history.rows) :
        price_history.rows[k].age <= arg_hours_back}

\* the stored row behind the j-th returned record
RowOf(j) == provider_out.items[j].val.n

AgeOf(j) == price_history.rows[RowOf(j)].age

Returned == {RowOf(j) : j \in 1..Len(provider_out.items)}

(* C26: the database-backed provider get_historical_price_data never
   raises: it returns None when the query matches no row or when any
   database error occurs, and otherwise returns at most 50 {"price": p}
   records ordered by timestamp ascending; a database failure is
   therefore indistinguishable from insufficient data for the caller. *)
C26_ProviderNeverRaises ==
    ProviderReturned =>
       /\ ppc = "done"
       /\ (price_history.err \/ Matching = {}) =>
             /\ provider_out = HistNone
             /\ insufficient_prices(extract_prices(provider_out))
       /\ (~price_history.err /\ Matching # {}) =>
             /\ provider_out.hk = "list"
             /\ Len(provider_out.items) <= 50
             /\ Len(provider_out.items) = Min(50, Cardinality(Matching))
             /\ \A j \in 1..Len(provider_out.items) :
                   /\ provider_out.items[j].kind = "dict"
                   /\ provider_out.items[j].has
                   /\ provider_out.items[j].val.t = "num"
                   /\ RowOf(j) \in Matching
             /\ \A i, j \in 1..Len(provider_out.items) :
                   i < j => AgeOf(i) > AgeOf(j)
             /\ \A k \in Matching \ Returned :
                   \A j \in 1..Len(provider_out.items) :
                      price_history.rows[k].age < AgeOf(j)

\* a table stored newest first with more than 50 matching rows: 50 records
\* returned, the oldest of them first
C26_Witness ==
    /\ ppc = "done"
    /\ Cardinality(Matching) > 50
    /\ Len(provider_out.items) = 50
    /\ price_history.rows[1].age < price_history.rows[2].age
    /\ AgeOf(1) > AgeOf(50)
    /\ RowOf(1) = Len(price_history.rows)

-----------------------------------------------------------------------------
(* Vocabulary of the test-run properties *)

\* the nine tests as listed, then the report
ListedCalls ==
    <<"database_connection", "database_schema",
      "historical_data_availability", "extract_prices_function",
      "get_historical_price_data", "volatility_calculation",
      "complete_method", "data_flow_integration", "error_handling",
      "generate_final_report">>

Statuses ==
    {"PASSED", "FAILED", "PARTIAL", "NO_DATA", "INSUFFICIENT_DATA"}

ReportGenerated == rpc >= 0 /\ ran # <<>> /\ ran[Len(ran)] = "generate_final_report"

(* C27: VolatilityTester.run_all_tests runs its nine tests in the fixed
   listed order followed by generate_final_report; a failure inside one
   test does not prevent the later tests from running, and when the report
   is generated test_results holds exactly one entry with a 'status' for
   each of the nine tests. *)
C27_NineTestsThenReport ==
    /\ Len(ran) <= 10
    /\ \A k \in 1..Len(ran) : ran[k] = ListedCalls[k]
    /\ Len(test_results) = Min(Len(ran), 9)
    /\ \A k \in 1..Len(test_results) :
          /\ test_results[k].name = ListedCalls[k]
          /\ test_results[k].status \in Statuses
    /\ ReportGenerated =>
          /\ Len(ran) = 10
          /\ Len(test_results) = 9

\* the report has been generated after a run whose first and third tests
\* failed and whose last test passed
C27_Witness ==
    /\ ReportGenerated
    /\ Len(test_results) = 9
    /\ test_results[1].status = "FAILED"
    /\ test_results[3].status = "FAILED"
    /\ test_results[9].status = "PASSED"

====
